---- MODULE Spec2Model ----
(***************************************************************************)
(* Activity logging of the storefront frontend (package activitylog):      *)
(*   - the store: InitDB / GetDB / CloseDB around one shared *sql.DB       *)
(*     guarded by a sync.Once;                                             *)
(*   - the repository: LogActivity, GetActivitiesBySession,                *)
(*     GetRecentActivities, GetActivityStats;                              *)
(*   - the classifier getActivityType;                                     *)
(*   - the middleware ActivityMiddleware.ServeHTTP with responseRecorder.  *)
(* SpecStore, SpecRepo, SpecClassify and SpecMW exercise one component     *)
(* each over the same variables.                                           *)
(***************************************************************************)
EXTENDS Integers, Sequences, FiniteSets, TLC

VARIABLES
    db,        \* package variable db: NilDB or the *sql.DB opened by InitDB
    once,      \* package variable once (sync.Once): "fresh", "running", "done"
    ipc,       \* per goroutine: position inside InitDB
    ierr,      \* per goroutine: the local variable err of InitDB
    steps,     \* how often each setup step has been executed
    setupErr,  \* err at the end of the function passed to once.Do ("none": not finished)
    rets,      \* the InitDB calls that returned, in order: goroutine, returned err,
               \* setupErr at that time, whether the call was blocked in once.Do
    getRes,    \* the last GetDB call and what it returned
    rows,      \* table activities, in rowid order
    now,       \* the wall clock read by time.Now()
    lastLog,   \* the LogActivity call that was the last repository operation
    qres,      \* the last repository query and its result
    creq,      \* the request handed to getActivityType
    ctype,     \* what getActivityType returned for creq
    mw         \* per request: the state of one ServeHTTP invocation

vars == <<db, once, ipc, ierr, steps, setupErr, rets, getRes,
          rows, now, lastLog, qres, creq, ctype, mw>>

storeVars == <<db, once, ipc, ierr, steps, setupErr, rets, getRes>>
repoVars  == <<rows, now, lastLog, qres>>
clsVars   == <<creq, ctype>>
restVars  == <<rows, now, lastLog, qres, creq, ctype, mw>>

----------------------------------------------------------------------------
(* Bounds *)

NumProcs     == 2   \* goroutines calling InitDB
MaxInitCalls == 3   \* InitDB calls in one process
MaxRows      == 3   \* rows in table activities
MaxTime      == 3   \* clock readings 1..MaxTime
MaxLimit     == 2   \* LIMIT arguments 1..MaxLimit
MaxHandlerCalls == 2 \* WriteHeader/Write calls of one wrapped handler

Procs == 1..NumProcs

----------------------------------------------------------------------------
(* Store: InitDB, GetDB, CloseDB *)

\* http.StatusOK
StatusOK == 200

\* a nil error
Nil == "nil"

\* a nil *sql.DB
NilDB == [hid |-> 0, wal |-> FALSE, schema |-> FALSE, closed |-> FALSE]

SetupSteps == {"mkdir", "open", "pragma", "schema"}

\* the *sql.DB returned by the n-th sql.Open
NewHandle(n) == [hid |-> n, wal |-> FALSE, schema |-> FALSE, closed |-> FALSE]

\* once.Do(f) runs f only for the first caller
OnceDoNoGuard(o) == o # "running"
OnceDo(o) == o = "fresh"

Bump(s) == [steps EXCEPT ![s] = @ + 1]

\* InitDB up to the entry of once.Do
InitCall(p) ==
    /\ ipc[p] = "idle"
    /\ Len(rets) + Cardinality({q \in Procs : ipc[q] # "idle"}) < MaxInitCalls
    /\ ierr' = [ierr EXCEPT ![p] = Nil]
    /\ IF OnceDo(once)
         THEN /\ once' = "running"
              /\ ipc' = [ipc EXCEPT ![p] = "mkdir"]
         ELSE /\ once' = once
              /\ ipc' = [ipc EXCEPT ![p] = IF once = "done" THEN "ret" ELSE "wait"]
    /\ UNCHANGED <<db, steps, setupErr, rets, getRes>>
    /\ UNCHANGED restVars

\* a caller blocked in once.Do while another goroutine runs f
InitWake(p) ==
    /\ ipc[p] = "wait"
    /\ once = "done"
    /\ ipc' = [ipc EXCEPT ![p] = "woken"]
    /\ UNCHANGED <<db, once, ierr, steps, setupErr, rets, getRes>>
    /\ UNCHANGED restVars

\* f returns with err = e: once.Do completes
FailSetup(p, e) ==
    /\ ierr' = [ierr EXCEPT ![p] = e]
    /\ setupErr' = e
    /\ once' = "done"
    /\ ipc' = [ipc EXCEPT ![p] = "ret"]

\* os.MkdirAll(dataDir, 0755)
StepMkdir(p) ==
    /\ ipc[p] = "mkdir"
    /\ steps' = Bump("mkdir")
    /\ \E ok \in BOOLEAN :
         IF ok THEN /\ ipc' = [ipc EXCEPT ![p] = "open"]
                    /\ UNCHANGED <<once, ierr, setupErr>>
               ELSE FailSetup(p, "EMkdir")
    /\ UNCHANGED <<db, rets, getRes>>
    /\ UNCHANGED restVars

\* db, err = sql.Open("sqlite3", dbPath)
StepOpen(p) ==
    /\ ipc[p] = "open"
    /\ steps' = Bump("open")
    /\ \E ok \in BOOLEAN :
         IF ok THEN /\ db' = NewHandle(steps'["open"])
                    /\ ipc' = [ipc EXCEPT ![p] = "pragma"]
                    /\ UNCHANGED <<once, ierr, setupErr>>
               ELSE /\ db' = NilDB
                    /\ FailSetup(p, "EOpen")
    /\ UNCHANGED <<rets, getRes>>
    /\ UNCHANGED restVars

\* db.Exec("PRAGMA journal_mode=WAL"); Exec on a closed DB returns an error
StepPragma(p) ==
    /\ ipc[p] = "pragma"
    /\ steps' = Bump("pragma")
    /\ \E ok \in BOOLEAN :
         IF ok /\ ~db.closed
           THEN /\ db' = [db EXCEPT !.wal = TRUE]
                /\ ipc' = [ipc EXCEPT ![p] = "schema"]
                /\ UNCHANGED <<once, ierr, setupErr>>
           ELSE /\ db' = db
                /\ FailSetup(p, "EPragma")
    /\ UNCHANGED <<rets, getRes>>
    /\ UNCHANGED restVars

\* db.Exec(schema), then log.Infof and the end of f
StepSchema(p) ==
    /\ ipc[p] = "schema"
    /\ steps' = Bump("schema")
    /\ \E ok \in BOOLEAN :
         IF ok /\ ~db.closed
           THEN /\ db' = [db EXCEPT !.schema = TRUE]
                /\ FailSetup(p, Nil)
           ELSE /\ db' = db
                /\ FailSetup(p, "ESchema")
    /\ UNCHANGED <<rets, getRes>>
    /\ UNCHANGED restVars

\* return err
InitReturn(p) ==
    /\ ipc[p] \in {"ret", "woken"}
    /\ rets' = Append(rets, [p |-> p, err |-> ierr[p], setup |-> setupErr,
                             blocked |-> ipc[p] = "woken"])
    /\ ipc' = [ipc EXCEPT ![p] = "idle"]
    /\ UNCHANGED <<db, once, ierr, steps, setupErr, getRes>>
    /\ UNCHANGED restVars

\* GetDB returns the package variable as it is
GetDB ==
    /\ getRes' = [called |-> TRUE, err |-> Nil, val |-> db,
                  setup |-> setupErr, nrets |-> Len(rets)]
    /\ UNCHANGED <<db, once, ipc, ierr, steps, setupErr, rets>>
    /\ UNCHANGED restVars

\* CloseDB: db.Close() when db is not nil
CloseDB ==
    /\ db' = IF db # NilDB THEN [db EXCEPT !.closed = TRUE] ELSE db
    /\ UNCHANGED <<once, ipc, ierr, steps, setupErr, rets, getRes>>
    /\ UNCHANGED restVars

NoGet == [called |-> FALSE, err |-> Nil, val |-> NilDB, setup |-> "none", nrets |-> 0]

StoreInit ==
    /\ db = NilDB
    /\ once = "fresh"
    /\ ipc = [p \in Procs |-> "idle"]
    /\ ierr = [p \in Procs |-> Nil]
    /\ steps = [s \in SetupSteps |-> 0]
    /\ setupErr = "none"
    /\ rets = <<>>
    /\ getRes = NoGet

----------------------------------------------------------------------------
(* Repository: LogActivity and the three queries *)

Sessions == {"s1", "s2"}

\* the activity types of the frontend
ActivityTypePageView       == "page_view"
ActivityTypeAddToCart      == "add_to_cart"
ActivityTypeEmptyCart      == "empty_cart"
ActivityTypeCheckout       == "checkout"
ActivityTypeCurrencyChange == "currency_change"
ActivityTypeProductView    == "product_view"

\* struct ActivityLog
ActivityLog(sid, rid, typ, path, method, status, cur, details, created) ==
    [ID |-> 0, SessionID |-> sid, RequestID |-> rid, ActivityType |-> typ,
     Path |-> path, Method |-> method, StatusCode |-> status,
     UserCurrency |-> cur, Details |-> details, CreatedAt |-> created]

\* a statement on the handle d: a nil handle is dereferenced (panic), a closed
\* handle or one without the table returns an error, a working one may still
\* fail on I/O
ExecOutcomes(d) ==
    IF d = NilDB THEN {"panic"}
    ELSE IF d.closed \/ ~d.schema THEN {"error"}
    ELSE {"ok", "error"}

\* id INTEGER PRIMARY KEY AUTOINCREMENT on a table without deletes
NextId(tbl) == Len(tbl) + 1

\* the INSERT of LogActivity: created_at is bound to time.Now()
InsertRowCallerTime(tbl, a, t) ==
    Append(tbl, [a EXCEPT !.ID = NextId(tbl)])
InsertRow(tbl, a, t) ==
    Append(tbl, [a EXCEPT !.ID = NextId(tbl), !.CreatedAt = t])

Min(a, b) == IF a < b THEN a ELSE b

\* LIMIT ? with a positive argument
Limit(s, n) == SubSeq(s, 1, Min(n, Len(s)))

\* r comes before q under ORDER BY created_at DESC; rows of equal created_at
\* come out in descending rowid order when idx_created_at is scanned backwards
\* (newestFirst) and in ascending rowid order from the sorter
Before(r, q, newestFirst) ==
    \/ r.CreatedAt > q.CreatedAt
    \/ /\ r.CreatedAt = q.CreatedAt
       /\ IF newestFirst THEN r.ID > q.ID ELSE r.ID < q.ID

RECURSIVE OrderByCreatedAtDesc(_, _)
OrderByCreatedAtDesc(S, newestFirst) ==
    IF S = {} THEN <<>>
    ELSE LET first == CHOOSE r \in S : \A q \in S \ {r} : Before(r, q, newestFirst)
         IN  <<first>> \o OrderByCreatedAtDesc(S \ {first}, newestFirst)

RowSet(tbl) == {tbl[i] : i \in 1..Len(tbl)}

\* SELECT ... WHERE session_id = ? ORDER BY created_at DESC LIMIT ?
GetActivitiesBySessionNoWhere(tbl, sid, limit) ==
    Limit(OrderByCreatedAtDesc(RowSet(tbl), FALSE), limit)
GetActivitiesBySession(tbl, sid, limit) ==
    Limit(OrderByCreatedAtDesc({r \in RowSet(tbl) : r.SessionID = sid}, FALSE), limit)

\* SELECT ... ORDER BY created_at DESC LIMIT ?
GetRecentActivities(tbl, limit) ==
    Limit(OrderByCreatedAtDesc(RowSet(tbl), TRUE), limit)

\* SELECT activity_type, COUNT(*) ... WHERE created_at BETWEEN ? AND ?
\* GROUP BY activity_type, scanned into a map
GetActivityStatsHalfOpen(tbl, startTime, endTime) ==
    LET hit == {r \in RowSet(tbl) : startTime <= r.CreatedAt /\ r.CreatedAt < endTime}
    IN  [t \in {r.ActivityType : r \in hit} |->
            Cardinality({r \in hit : r.ActivityType = t})]
GetActivityStats(tbl, startTime, endTime) ==
    LET hit == {r \in RowSet(tbl) : startTime <= r.CreatedAt /\ r.CreatedAt <= endTime}
    IN  [t \in {r.ActivityType : r \in hit} |->
            Cardinality({r \in hit : r.ActivityType = t})]

NoLog == [valid |-> FALSE]
NoQuery == [op |-> "none"]

\* activities handed to LogActivity by a caller of the package; CreatedAt is
\* the zero time the caller leaves in the struct
PathRoot == <<"/">>

RepoActivities ==
    {ActivityLog(st[1], "req", st[2], PathRoot, "GET", StatusOK, "USD", {}, 0) :
        st \in {<<"s1", ActivityTypePageView>>, <<"s1", "other">>,
                 <<"s2", ActivityTypePageView>>}}

\* LogActivity(activity)
LogActivity(a) ==
    /\ Len(rows) < MaxRows
    /\ \E o \in ExecOutcomes(db) :
         /\ rows' = IF o = "ok" THEN InsertRow(rows, a, now) ELSE rows
         /\ lastLog' = [valid |-> TRUE, out |-> o, a |-> a, called |-> now]
    /\ qres' = NoQuery
    /\ UNCHANGED <<now, storeVars, clsVars, mw>>

\* the clock advances between two readings of time.Now(); it does not go
\* back, and two readings may be equal
Tick ==
    /\ now < MaxTime
    /\ now' = now + 1
    /\ UNCHANGED <<rows, lastLog, qres, storeVars, clsVars, mw>>

\* queryActivities / rows.Scan: the statement's outcome and the scanned rows,
\* kept with the arguments of the call; a failed call returns nil and the error
QueryResult(op, a1, a2, o, out) ==
    IF o = "ok"
      THEN [op |-> op, a1 |-> a1, a2 |-> a2, status |-> o, out |-> out,
            after |-> lastLog]
      ELSE [op |-> op, a1 |-> 0, a2 |-> 0, status |-> o, out |-> <<>>,
            after |-> NoLog]

CallGetActivitiesBySession(sid, limit) ==
    /\ qres = NoQuery
    /\ \E o \in ExecOutcomes(db) :
         qres' = QueryResult("session", sid, limit, o,
                             GetActivitiesBySession(rows, sid, limit))
    /\ lastLog' = NoLog
    /\ UNCHANGED <<rows, now, storeVars, clsVars, mw>>

CallGetRecentActivities(limit) ==
    /\ qres = NoQuery
    /\ \E o \in ExecOutcomes(db) :
         qres' = QueryResult("recent", limit, limit, o,
                             GetRecentActivities(rows, limit))
    /\ lastLog' = NoLog
    /\ UNCHANGED <<rows, now, storeVars, clsVars, mw>>

CallGetActivityStats(startTime, endTime) ==
    /\ qres = NoQuery
    /\ \E o \in ExecOutcomes(db) :
         qres' = QueryResult("stats", startTime, endTime, o,
                             GetActivityStats(rows, startTime, endTime))
    /\ lastLog' = NoLog
    /\ UNCHANGED <<rows, now, storeVars, clsVars, mw>>

\* the caller of a query has encoded its result and returned; the queries of
\* the model are issued one at a time
Respond ==
    /\ qres # NoQuery
    /\ qres' = NoQuery
    /\ UNCHANGED <<rows, now, lastLog, storeVars, clsVars, mw>>

RepoInit ==
    /\ rows = <<>>
    /\ now = 1
    /\ lastLog = NoLog
    /\ qres = NoQuery

----------------------------------------------------------------------------
(* Classifier: getActivityType *)

\* strings whose prefixes matter are sequences of characters
PathCart          == <<"/", "c", "a", "r", "t">>
PathCartEmpty     == <<"/", "c", "a", "r", "t", "/", "e", "m", "p", "t", "y">>
PathCartCheckout  == <<"/", "c", "a", "r", "t", "/", "c", "h", "e", "c", "k", "o", "u", "t">>
PathSetCurrency   == <<"/", "s", "e", "t", "C", "u", "r", "r", "e", "n", "c", "y">>
PathProductPrefix == <<"/", "p", "r", "o", "d", "u", "c", "t", "/">>
PathProductId     == <<"/", "p", "r", "o", "d", "u", "c", "t", "/", "{", "i", "d", "}">>
PathProductMeta   == <<"/", "p", "r", "o", "d", "u", "c", "t", "-", "m", "e", "t", "a", "/", "{", "i", "d", "s", "}">>
PathProduct       == <<"/", "p", "r", "o", "d", "u", "c", "t">>
PathLogout        == <<"/", "l", "o", "g", "o", "u", "t">>
PathCartSlash     == <<"/", "c", "a", "r", "t", "/">>
PathHealthz       == <<"/", "_", "h", "e", "a", "l", "t", "h", "z">>

\* strings.HasPrefix(s, prefix)
HasPrefix(s, prefix) ==
    /\ Len(s) >= Len(prefix)
    /\ SubSeq(s, 1, Len(prefix)) = prefix

\* mux.CurrentRoute(r): no route (nil), or a route whose GetPathTemplate
\* yields tpl ("" when the route has no path template)
NoRoute == [matched |-> FALSE, tpl |-> <<>>]
Route(tpl) == [matched |-> TRUE, tpl |-> tpl]

getActivityTypeCartPrefix(route, method) ==
    IF ~route.matched THEN "unknown"
    ELSE LET path == route.tpl IN
         IF path = PathRoot /\ method = "GET" THEN ActivityTypePageView
         ELSE IF HasPrefix(path, PathCart) /\ method = "POST" THEN ActivityTypeAddToCart
         ELSE IF path = PathCartEmpty /\ method = "POST" THEN ActivityTypeEmptyCart
         ELSE IF path = PathCartCheckout /\ method = "POST" THEN ActivityTypeCheckout
         ELSE IF path = PathSetCurrency /\ method = "POST" THEN ActivityTypeCurrencyChange
         ELSE IF HasPrefix(path, PathProductPrefix) /\ method = "GET" THEN ActivityTypeProductView
         ELSE "other"
getActivityType(route, method) ==
    IF ~route.matched THEN "unknown"
    ELSE LET path == route.tpl IN
         IF path = PathRoot /\ method = "GET" THEN ActivityTypePageView
         ELSE IF path = PathCart /\ method = "POST" THEN ActivityTypeAddToCart
         ELSE IF path = PathCartEmpty /\ method = "POST" THEN ActivityTypeEmptyCart
         ELSE IF path = PathCartCheckout /\ method = "POST" THEN ActivityTypeCheckout
         ELSE IF path = PathSetCurrency /\ method = "POST" THEN ActivityTypeCurrencyChange
         ELSE IF HasPrefix(path, PathProductPrefix) /\ method = "GET" THEN ActivityTypeProductView
         ELSE "other"

Methods == {"GET", "POST", "HEAD", "PUT"}

Routes ==
    {NoRoute, Route(<<>>)} \cup
    {Route(t) : t \in {PathRoot, PathCart, PathCartEmpty, PathCartCheckout,
                       PathSetCurrency, PathProductPrefix, PathProductId,
                       PathProductMeta, PathProduct, PathLogout, PathCartSlash,
                       PathHealthz}}

\* a request reaches the classifier
Dispatch(method, route) ==
    /\ creq' = [method |-> method, route |-> route]
    /\ ctype' = "pending"
    /\ UNCHANGED <<storeVars, repoVars, mw>>

\* ActivityType: getActivityType(r)
Classify ==
    /\ ctype = "pending"
    /\ ctype' = getActivityType(creq.route, creq.method)
    /\ UNCHANGED <<creq, storeVars, repoVars, mw>>

ClsInit ==
    /\ creq = [method |-> "GET", route |-> NoRoute]
    /\ ctype = "pending"

----------------------------------------------------------------------------
(* Middleware: ActivityMiddleware.ServeHTTP and responseRecorder *)

Reqs == {"r1", "r2"}

\* the requests served: method, matched route, URL path, currency cookie,
\* session identifier in the request context
MWRequests ==
    {[method |-> "POST", route |-> Route(PathCart), path |-> PathCart,
      cookie |-> "EUR", session |-> "s1"],
     [method |-> "GET", route |-> NoRoute, path |-> PathHealthz,
      cookie |-> "", session |-> "s2"]}

\* status codes the wrapped handler passes to WriteHeader
HandlerCodes == {404, 500}

\* currentCurrency: the cookie "currency", or USD ("" stands for no cookie)
currentCurrency(cookie) == IF cookie # "" THEN cookie ELSE "USD"

\* the keys of the details map, by activity type; the map is attached
\* only when it is not empty
Details(typ) ==
    IF typ = ActivityTypeAddToCart THEN {"product_id", "quantity"}
    ELSE IF typ = ActivityTypeProductView THEN {"product_id"}
    ELSE IF typ = ActivityTypeCurrencyChange THEN {"new_currency"}
    ELSE {}

NoReq == [method |-> "", route |-> NoRoute, path |-> <<>>, cookie |-> "", session |-> ""]

IdleMW ==
    [pc |-> "idle", req |-> NoReq,
     activity |-> ActivityLog("", "", "", <<>>, "", 0, "", {}, 0),
     status |-> 0, wcalls |-> <<>>, hret |-> FALSE, atReturn |-> <<>>,
     submits |-> 0, warns |-> 0, out |-> "none"]

\* ServeHTTP up to the call of the wrapped handler
MWStart(r) ==
    /\ mw[r].pc = "idle"
    /\ \E q \in MWRequests :
         mw' = [mw EXCEPT ![r] =
                  [@ EXCEPT !.pc = "handler", !.req = q,
                            !.activity = ActivityLog(q.session, r,
                                 getActivityType(q.route, q.method), q.path,
                                 q.method, 0, currentCurrency(q.cookie), {}, 0)]]
    /\ UNCHANGED <<storeVars, repoVars, clsVars>>

\* the context carries no session or request identifier: the type
\* assertion panics before the wrapped handler is called
MWStartNoCtx(r) ==
    /\ mw[r].pc = "idle"
    /\ mw' = [mw EXCEPT ![r].pc = "panicked"]
    /\ UNCHANGED <<storeVars, repoVars, clsVars>>

\* responseRecorder.WriteHeader(status)
WriteHeader(r, status) ==
    /\ mw[r].pc = "handler"
    /\ Len(mw[r].wcalls) < MaxHandlerCalls
    /\ mw' = [mw EXCEPT ![r].status = status,
                        ![r].wcalls = Append(@, <<"WriteHeader", status>>)]
    /\ UNCHANGED <<storeVars, repoVars, clsVars>>

\* responseRecorder.Write(b)
Write(r) ==
    /\ mw[r].pc = "handler"
    /\ Len(mw[r].wcalls) < MaxHandlerCalls
    /\ mw' = [mw EXCEPT ![r].status = IF @ = 0 THEN StatusOK ELSE @,
                        ![r].wcalls = Append(@, <<"Write", 0>>)]
    /\ UNCHANGED <<storeVars, repoVars, clsVars>>

\* the wrapped handler panics
HandlerPanic(r) ==
    /\ mw[r].pc = "handler"
    /\ mw' = [mw EXCEPT ![r].pc = "panicked"]
    /\ UNCHANGED <<storeVars, repoVars, clsVars>>

\* m.next.ServeHTTP returns; the status and the details are filled in
HandlerReturn(r) ==
    /\ mw[r].pc = "handler"
    /\ mw' = [mw EXCEPT ![r].pc = "returned",
                        ![r].hret = TRUE,
                        ![r].atReturn = mw[r].wcalls,
                        ![r].activity.StatusCode = mw[r].status,
                        ![r].activity.Details = Details(mw[r].activity.ActivityType)]
    /\ UNCHANGED <<storeVars, repoVars, clsVars>>

\* the point of ServeHTTP at which LogActivity is called
SubmitAnyTime(pc) == pc \in {"handler", "returned"}
SubmitPoint(pc) == pc = "returned"

\* if err := LogActivity(activity); err != nil { m.log.Warnf(...) }
MWLog(r) ==
    /\ SubmitPoint(mw[r].pc)
    /\ \E o \in ExecOutcomes(db) :
         /\ rows' = IF o = "ok" THEN InsertRow(rows, mw[r].activity, now) ELSE rows
         /\ mw' = [mw EXCEPT ![r].pc = IF o = "panic" THEN "panicked" ELSE "done",
                             ![r].submits = @ + 1,
                             ![r].warns = IF o = "error" THEN @ + 1 ELSE @,
                             ![r].out = o]
    /\ UNCHANGED <<now, lastLog, qres, storeVars, clsVars>>

MWInit == mw = [r \in Reqs |-> IdleMW]

----------------------------------------------------------------------------
(* Specifications *)

\* process start: nothing initialized, empty table, no request in flight
InitFresh == StoreInit /\ RepoInit /\ ClsInit /\ MWInit

StoreNext ==
    \/ \E p \in Procs : InitCall(p)
    \/ \E p \in Procs : InitWake(p)
    \/ \E p \in Procs : StepMkdir(p)
    \/ \E p \in Procs : StepOpen(p)
    \/ \E p \in Procs : StepPragma(p)
    \/ \E p \in Procs : StepSchema(p)
    \/ \E p \in Procs : InitReturn(p)
    \/ GetDB
    \/ CloseDB

\* the store from process start
SpecStore ==
    /\ InitFresh
    /\ [][StoreNext]_vars

\* the states in which one InitDB call by goroutine 1 leaves the store,
\* with or without a CloseDB after it, and the store never initialized
SetupEnds ==
    {[err |-> "EMkdir",  n |-> 1, db |-> NilDB],
     [err |-> "EOpen",   n |-> 2, db |-> NilDB],
     [err |-> "EPragma", n |-> 3, db |-> NewHandle(1)],
     [err |-> "ESchema", n |-> 4, db |-> [NewHandle(1) EXCEPT !.wal = TRUE]],
     [err |-> Nil,       n |-> 4, db |-> [NewHandle(1) EXCEPT !.wal = TRUE, !.schema = TRUE]]}

StepNo(s) == CASE s = "mkdir" -> 1 [] s = "open" -> 2 [] s = "pragma" -> 3 [] s = "schema" -> 4

SettledAfter(e, d) ==
    /\ db = d
    /\ once = "done"
    /\ ipc = [p \in Procs |-> "idle"]
    /\ ierr = [p \in Procs |-> IF p = 1 THEN e.err ELSE Nil]
    /\ steps = [s \in SetupSteps |-> IF StepNo(s) <= e.n THEN 1 ELSE 0]
    /\ setupErr = e.err
    /\ rets = <<[p |-> 1, err |-> e.err, setup |-> e.err, blocked |-> FALSE]>>
    /\ getRes = NoGet

SettledStore ==
    \/ StoreInit
    \/ \E e \in SetupEnds : SettledAfter(e, e.db)
    \/ \E e \in SetupEnds : e.db # NilDB /\ SettledAfter(e, [e.db EXCEPT !.closed = TRUE])

\* the store has settled before the first request or repository call
InitSettled == SettledStore /\ RepoInit /\ ClsInit /\ MWInit

Times  == 1..MaxTime
Limits == 1..MaxLimit

RepoNext ==
    \/ Tick
    \/ \E a \in RepoActivities : LogActivity(a)
    \/ \E sid \in Sessions, n \in Limits : CallGetActivitiesBySession(sid, n)
    \/ \E n \in Limits : CallGetRecentActivities(n)
    \/ \E t0 \in Times, t1 \in Times : CallGetActivityStats(t0, t1)
    \/ Respond

\* the repository on a store that has settled
SpecRepo ==
    /\ InitSettled
    /\ [][RepoNext]_vars

ClsNext ==
    \/ \E m \in Methods, rt \in Routes : Dispatch(m, rt)
    \/ Classify

\* the classifier on every method and route
SpecClassify ==
    /\ InitFresh
    /\ [][ClsNext]_vars

MWNext ==
    \/ \E r \in Reqs : MWStart(r)
    \/ \E r \in Reqs : MWStartNoCtx(r)
    \/ \E r \in Reqs, c \in HandlerCodes : WriteHeader(r, c)
    \/ \E r \in Reqs : Write(r)
    \/ \E r \in Reqs : HandlerPanic(r)
    \/ \E r \in Reqs : HandlerReturn(r)
    \/ \E r \in Reqs : MWLog(r)

\* concurrent requests through the middleware on a store that has settled
SpecMW ==
    /\ InitSettled
    /\ [][MWNext]_vars

----------------------------------------------------------------------------
(* Properties *)

\* the fixed enumeration of activity types
ActivityTypes ==
    {"page_view", "add_to_cart", "empty_cart", "checkout", "currency_change",
     "product_view", "other", "unknown"}

\* C1: while InitDB has not completed successfully (never called, or failed at
\* any setup step), GetDB reports Uninitialized instead of returning a handle.
C1_GetDBReportsUninitialized ==
    (getRes.called /\ getRes.setup # Nil) => getRes.err = "Uninitialized"

\* C2: however many InitDB calls are made, sequentially or interleaved, every
\* setup step runs at most once and the setup as a whole exactly once; when it
\* succeeds every call returns nil and GetDB returns the one handle it opened.
C2_SetupExactlyOnce ==
    /\ \A s \in SetupSteps : steps[s] <= 1
    /\ Len(rets) > 0 => steps["mkdir"] = 1
    /\ setupErr = Nil =>
         /\ \A s \in SetupSteps : steps[s] = 1
         /\ \A i \in 1..Len(rets) : rets[i].err = Nil
         /\ (getRes.called /\ getRes.setup = Nil) =>
                /\ getRes.val # NilDB
                /\ getRes.val.hid = 1
                /\ getRes.val.wal /\ getRes.val.schema

\* after a successful setup a goroutine that was blocked in once.Do while the
\* other ran the setup has returned, as has a later sequential call, and GetDB
\* was called after them
C2_Witness ==
    /\ setupErr = Nil
    /\ Len(rets) >= 3
    /\ \E i, j \in 1..Len(rets) : rets[i].p # rets[j].p /\ rets[i].blocked
    /\ getRes.called /\ getRes.nrets >= 3
    /\ getRes.val.hid = 1

RowsOf(r) == {i \in 1..Len(rows) : rows[i].RequestID = r}

\* C3: a request whose wrapped handler returned submits exactly one record to
\* LogActivity, after the handler has returned; nothing is submitted or written
\* for it before or while the handler runs, under any interleaving of requests.
C3_OneSubmitAfterHandler ==
    \A r \in Reqs :
        /\ mw[r].submits <= 1
        /\ ~mw[r].hret => (mw[r].submits = 0 /\ RowsOf(r) = {})
        /\ Cardinality(RowsOf(r)) <= mw[r].submits
        /\ (mw[r].hret /\ mw[r].pc \in {"done", "panicked"}) => mw[r].submits = 1

\* one request has been logged while the handler of the other is still writing
C3_Witness ==
    \E r, q \in Reqs :
        /\ mw[r].pc = "done" /\ mw[r].submits = 1 /\ RowsOf(r) # {}
        /\ mw[q].pc = "handler" /\ mw[q].wcalls # <<>> /\ mw[q].submits = 0

\* the first status code written by a sequence of handler calls
FirstStatus(calls) ==
    IF calls[1][1] = "WriteHeader" THEN calls[1][2] ELSE StatusOK

\* C4: the status stored in the activity record is the first status code the
\* handler wrote: the first WriteHeader argument, or 200 when body bytes came
\* first; later WriteHeader calls do not change it.
C4_RecordsFirstStatus ==
    \A r \in Reqs :
        (mw[r].hret /\ mw[r].atReturn # <<>>) =>
            mw[r].activity.StatusCode = FirstStatus(mw[r].atReturn)

\* C5: when LogActivity fails for a request, the response is what the handler
\* produced, the middleware logs one warning and returns normally, and the
\* write was attempted once.
C5_FailedWriteIsHarmless ==
    \A r \in Reqs :
        mw[r].out \in {"error", "panic"} =>
            /\ mw[r].pc = "done"
            /\ mw[r].warns = 1
            /\ mw[r].submits = 1
            /\ mw[r].wcalls = mw[r].atReturn

\* the documented rules, in order
Rules ==
    << [exact |-> TRUE,  path |-> PathRoot,          method |-> "GET",  typ |-> "page_view"],
       [exact |-> TRUE,  path |-> PathCart,          method |-> "POST", typ |-> "add_to_cart"],
       [exact |-> TRUE,  path |-> PathCartEmpty,     method |-> "POST", typ |-> "empty_cart"],
       [exact |-> TRUE,  path |-> PathCartCheckout,  method |-> "POST", typ |-> "checkout"],
       [exact |-> TRUE,  path |-> PathSetCurrency,   method |-> "POST", typ |-> "currency_change"],
       [exact |-> FALSE, path |-> PathProductPrefix, method |-> "GET",  typ |-> "product_view"] >>

RuleMatches(i, q) ==
    /\ q.method = Rules[i].method
    /\ IF Rules[i].exact THEN q.route.tpl = Rules[i].path
                         ELSE HasPrefix(q.route.tpl, Rules[i].path)

FirstMatch(q) ==
    IF ~q.route.matched THEN "unknown"
    ELSE IF \E i \in 1..Len(Rules) : RuleMatches(i, q)
         THEN LET i == CHOOSE i \in 1..Len(Rules) :
                         /\ RuleMatches(i, q)
                         /\ \A j \in 1..(i - 1) : ~RuleMatches(j, q)
              IN  Rules[i].typ
         ELSE "other"

\* C6: getActivityType returns a member of the fixed enumeration, the type of
\* the first documented rule that matches the method and route template,
\* "other" for a routed request no rule matches and "unknown" without a route.
C6_ClassifyFirstMatch ==
    ctype # "pending" => (ctype \in ActivityTypes /\ ctype = FirstMatch(creq))

\* POST /cart/checkout has been classified as checkout
C6_Witness ==
    /\ creq = [method |-> "POST", route |-> Route(PathCartCheckout)]
    /\ ctype = "checkout"

RecentAfterLog ==
    /\ qres.op = "recent" /\ qres.a1 = 1 /\ qres.status = "ok"
    /\ qres.after.valid /\ qres.after.out = "ok"

C8_BySessionFilteredLimitedOrdered ==
    (qres.op = "session" /\ qres.status = "ok") =>
        /\ Len(qres.out) <= qres.a2
        /\ \A i \in 1..Len(qres.out) :
              /\ qres.out[i].SessionID = qres.a1
              /\ qres.out[i] \in RowSet(rows)
        /\ \A i, j \in 1..Len(qres.out) :
              i < j => qres.out[i].CreatedAt >= qres.out[j].CreatedAt

\* the limit cut off an older record of the session, and another session has
\* a record too
C8_Witness ==
    /\ qres.op = "session" /\ qres.status = "ok"
    /\ Len(qres.out) = qres.a2
    /\ \E i \in 1..Len(rows) :
          /\ rows[i].SessionID = qres.a1
          /\ rows[i] \notin RowSet(qres.out)
          /\ rows[i].CreatedAt < qres.out[Len(qres.out)].CreatedAt
    /\ \E i \in 1..Len(rows) : rows[i].SessionID # qres.a1

CountInWindow(t, t0, t1) ==
    Cardinality({i \in 1..Len(rows) :
        /\ rows[i].ActivityType = t
        /\ t0 <= rows[i].CreatedAt /\ rows[i].CreatedAt <= t1})

\* C9: GetActivityStats(t0, t1) maps each activity type to the number of stored
\* records of that type with created_at in [t0, t1], both ends included, and
\* has no entry for a type without such a record.
C9_StatsCountsInclusive ==
    (qres.op = "stats" /\ qres.status = "ok") =>
        /\ DOMAIN qres.out \subseteq ActivityTypes
        /\ \A t \in ActivityTypes :
              IF CountInWindow(t, qres.a1, qres.a2) > 0
                THEN t \in DOMAIN qres.out
                     /\ qres.out[t] = CountInWindow(t, qres.a1, qres.a2)
                ELSE t \notin DOMAIN qres.out

\* the window has a record on each end and leaves out the only record of a type
C9_Witness ==
    /\ qres.op = "stats" /\ qres.status = "ok"
    /\ qres.a1 < qres.a2
    /\ \E i, j \in 1..Len(rows) :
          rows[i].CreatedAt = qres.a1 /\ rows[j].CreatedAt = qres.a2
    /\ \E i \in 1..Len(rows) : rows[i].ActivityType \notin DOMAIN qres.out
    /\ DOMAIN qres.out # {}

\* C10: when the setup fails, every InitDB call of the process returns the
\* error, the later ones as well as the first.
C10_EveryCallSurfacesFailure ==
    \A i \in 1..Len(rets) : rets[i].setup # Nil => rets[i].err # Nil

====
